---- MODULE Spec2Model ----
(***************************************************************************)
(* Ozone dispenser firmware (src/src/main.cpp): treatment controller,      *)
(* button relays, EEPROM persistence, the stubbed durable queues and the   *)
(* cooperative loop() that runs them.                                      *)
(*                                                                         *)
(* Time is the millisecond clock millis().  The firmware's clock is 32     *)
(* bits wide; the model keeps the modular arithmetic with the width        *)
(* ClockWrap, and loop iterations are either back to back (0 ms apart) or  *)
(* StepMs apart.                                                           *)
(***************************************************************************)
EXTENDS Integers, Sequences, FiniteSets, TLC

\* ------------------------------------------------------------------ bounds
StepMs == 5000
WrapSteps == 4
MaxStarts == 2
MaxPressed == 1
MaxReset == 2
MaxFailures == 8
MaxUploadRetries == 2
MaxAuthFailures == 1
MaxCmds == 2
MaxReconnects == 3
DebounceHorizonMs == 200
HoldHorizonMs == 5600

ClockWrap == WrapSteps * StepMs

\* ------------------------------------------------------- program constants
DURATION_B_MS == 5000
DURATION_S_MS == 10000
DURATION_P_MS == 15000
BUTTON_DEBOUNCE_MS == 50
BTN_RELAY_B_MS == 5000
BTN_RELAY_S_MS == 10000
BTN_RELAY_P_MS == 12000
INHIBIT_MS == 300
RESET_PULSE_MS == 1000
RETRY_BASE_DELAY_MS == 2000
RETRY_MAX_DELAY_MS == 300000
RETRY_JITTER_PERCENT == 20
RECONNECT_BASE_DELAY_MS == 30000
RECONNECT_STEP_MS == 30000
RECONNECT_MAX_DELAY_MS == 300000
AttemptsRange == 256
MAGIC_VALUE == 4660
ERASED16 == 65535
kNumRelays == 6

\* enum class Treatment : uint8_t { Basic=0, Standard=1, Premium=2, None=255 }
Basic == 0
Standard == 1
Premium == 2
None == 255
Kinds == {Basic, Standard, Premium}

\* enum class CommandType
CommandTypes ==
  {"RESET_COUNTERS", "CLEAR_MEMORY", "CLEAR_QUEUE", "REBOOT_DEVICE",
   "UPDATE_SETTINGS", "GET_STATUS", "SYNC_TIME", "UPDATE_FIRMWARE", "UNKNOWN"}

\* An EEPROM cell of a counter after CLEAR_MEMORY filled it with 0xFF bytes.
ErasedWord == -1

\* The characters of the serial UI that reach the treatment controller.
StartChars == {"b", "s", "p"}
NoChar == "-"

VARIABLES
  now,                \* millis()
  pc,                 \* position of the main task in setup()/loop()
  counter,            \* counterB, counterS, counterP
  resetCounter,
  active, activeDurationMs, activeStartMs,
  relays,             \* relays[i].state
  buttonRelayActive, activeButtonRelay, buttonRelayStart,
  stable,             \* bStable, sStable, pStable
  btnLast,            \* btnBLast, btnSLast, btnPLast
  lastChangeMs,       \* lastBChangeMs, lastSChangeMs, lastPChangeMs
  inputsInhibitUntil,
  deviceId, deviceToken,
  currentRetryDelay, retryAttempts, lastUploadAttempt,
  eeprom,             \* committed EEPROM contents
  startKind,          \* startTimer's parameter t while the call runs
  serialCmd,          \* the character loop() read last from Serial
  lastEvent,          \* the line enqueueTreatmentEvent built in this iteration, <<>> if none
  lastAppendOk,       \* what appendEventToQueue returned for it
  lastEventUploaded,  \* a 2xx upload of that line has happened
  commandRetryDelay, commandRetryAttempts,
  netOp,              \* what the last authenticated call of this iteration did
  lastRaw,            \* bRaw, sRaw, pRaw: loop()'s locals, live during its button block
  wifiReconnectionInProgress, lastReconnectAttempt,
  reconnectDelay, reconnectAttempts,
  wifiConnected,      \* WiFi.status() == WL_CONNECTED; the link comes and goes
                      \* by itself, which shows when the program reads it
  handshakeFailed     \* the last iteration of loop() to end made a handshake
                      \* attempt for a missing identity, and it failed

vars ==
  <<now, pc, counter, resetCounter, active, activeDurationMs, activeStartMs,
    relays, buttonRelayActive, activeButtonRelay, buttonRelayStart, stable,
    btnLast, lastChangeMs, inputsInhibitUntil, deviceId, deviceToken,
    currentRetryDelay, retryAttempts, lastUploadAttempt, eeprom, startKind,
    serialCmd, lastEvent, lastAppendOk, lastEventUploaded,
    commandRetryDelay, commandRetryAttempts, netOp, lastRaw,
    wifiReconnectionInProgress, lastReconnectAttempt, reconnectDelay,
    reconnectAttempts, wifiConnected, handshakeFailed>>

treatVars == <<active, activeDurationMs, activeStartMs>>
btnRelayVars == <<buttonRelayActive, activeButtonRelay, buttonRelayStart>>
buttonVars == <<stable, btnLast, lastChangeMs, lastRaw>>
identVars == <<deviceId, deviceToken>>
retryVars == <<currentRetryDelay, retryAttempts, lastUploadAttempt>>
cmdRetryVars == <<commandRetryDelay, commandRetryAttempts>>
reconnectVars ==
  <<wifiReconnectionInProgress, lastReconnectAttempt, reconnectDelay,
    reconnectAttempts>>
wifiVars == <<reconnectVars, wifiConnected, handshakeFailed>>
ghostVars == <<lastEvent, lastAppendOk, lastEventUploaded, netOp>>

\* ----------------------------------------------------------------- helpers
\* uint32 subtraction of two clock readings
ElapsedSince(t, start) == (t - start + ClockWrap) % ClockWrap

AllOff == [i \in 0..(kNumRelays - 1) |-> FALSE]

\* relay channel and LED mirror channel of a kind
RelayOf(k) == k
LedOf(k) == k + 3

DurationOf(t) ==
  CASE t = Basic -> DURATION_B_MS
    [] t = Standard -> DURATION_S_MS
    [] t = Premium -> DURATION_P_MS

ButtonDurationOf(relayType) ==
  CASE relayType = 1 -> BTN_RELAY_B_MS
    [] relayType = 2 -> BTN_RELAY_S_MS
    [] relayType = 3 -> BTN_RELAY_P_MS
    [] OTHER -> 0

KindOfChar(c) ==
  CASE c = "b" -> Basic
    [] c = "s" -> Standard
    [] c = "p" -> Premium

\* ------------------------------------------------------------- persistence
BlankEeprom ==
  [magic |-> ERASED16,
   counter |-> [k \in Kinds |-> ErasedWord],
   resetCounter |-> ErasedWord,
   deviceId |-> "",
   deviceToken |-> ""]

\* saveCounters(): the three counters and resetCounter, then commit
SaveCounters(ee, c, rc) == [ee EXCEPT !.counter = c, !.resetCounter = rc]

\* loadCounters(): the values RAM holds after it
LoadedCounter(ee) ==
  IF ee.magic = MAGIC_VALUE THEN ee.counter ELSE [k \in Kinds |-> 0]

LoadedReset(ee) ==
  IF ee.magic = MAGIC_VALUE THEN ee.resetCounter ELSE 0

\* loadCounters(): the EEPROM after it (a wrong magic re-initialises the cells)
LoadedEeprom(ee) ==
  IF ee.magic = MAGIC_VALUE
  THEN ee
  ELSE [ee EXCEPT !.counter = [k \in Kinds |-> 0],
                  !.resetCounter = 0,
                  !.magic = MAGIC_VALUE]

\* saveIdentity(id, token)
SaveIdentity(ee, id, tok) == [ee EXCEPT !.deviceId = id, !.deviceToken = tok]

\* treatments counted since the counters were last zeroed
TotalCount(c) == c[Basic] + c[Standard] + c[Premium]

\* a start that bumps every kind's counter
IncCounterAll(c, k) == [j \in Kinds |-> c[j] + 1]

\* counterX++
IncCounter(c, k) == [c EXCEPT ![k] = @ + 1]

\* ------------------------------------------------------- the stubbed queues
EmptyLine == <<>>
AppendEventToQueue(line) == TRUE
QueueSize == 0
ReadNextEvent == EmptyLine
PopEvent == TRUE
AppendCommandToQueue(line) == TRUE
CommandQueueSize == 0
ReadNextCommand == EmptyLine
PopCommand == TRUE

\* -------------------------------------------------- authenticated calls
\* What one call of uploadEventJson, pollCommands or reportCommandResult did:
\* the token it found, the first response code, the performHandshake calls
\* it made and whether one succeeded, the authenticated requests it made, the
\* response code it finally tested, its return value, the commands of a 2xx
\* poll response and the lines it handed to appendCommandToQueue.  For an
\* executed command also: the stored type string and the type parsed from it,
\* the reportCommandResult calls made, the success argument of the report and
\* the current_counters of its payload (built only when a token is held).  For
\* a record processCommandQueue read: whether it parsed as JSON, and its id.
NoOp ==
  [op |-> "none", id |-> "", parsed |-> FALSE,
   type |-> "", typeStr |-> "", hadToken |-> FALSE,
   first |-> "none", handshakes |-> 0, hsOk |-> FALSE, requests |-> 0,
   last |-> "none", ok |-> FALSE, resp |-> <<>>, appended |-> <<>>,
   popped |-> FALSE, reports |-> 0, success |-> FALSE, snapshot |-> <<>>]

\* HTTP response classes: 2xx, 401, anything else (other status or a
\* connection error)
Codes == {"2xx", "401", "err"}

\* What the backend does during one call: its answer to the first request,
\* whether a handshake made during the call succeeds, its answer to a second
\* request.  The parts a call never gets to see are fixed, so that no two
\* scripts describe the same exchange.
Scripts ==
  {s \in [first : Codes, hs : BOOLEAN, second : Codes] :
     /\ s.first # "401" => (~s.hs /\ s.second = s.first)
     /\ (s.first = "401" /\ ~s.hs) => s.second = "401"}

\* pollCommands / reportCommandResult, "if (code == 401)": the call hands
\* over to performHandshake once and repeats the request once if that worked
RetriedOn401(s) == s.first = "401" /\ s.hs

\* the response code both functions finally test for 2xx
FinalCode(s) == IF RetriedOn401(s) THEN s.second ELSE s.first

\* performHandshake calls and authenticated requests made by one call that
\* found the token tok
HandshakeCalls(tok, s) == IF tok # "" /\ s.first = "401" THEN 1 ELSE 0

\* a call that repeated the request for as long as the answer is 401
RequestsSentWhile401(tok, s) ==
  IF tok = "" THEN 0
  ELSE IF RetriedOn401(s) THEN (IF s.second = "401" THEN 3 ELSE 2) ELSE 1

\* a call that did not look at the token before sending
RequestsSentAnyToken(tok, s) == IF RetriedOn401(s) THEN 2 ELSE 1

RequestsSent(tok, s) ==
  IF tok = "" THEN 0 ELSE IF RetriedOn401(s) THEN 2 ELSE 1

\* return values
PollCommands(tok, s) == tok # "" /\ FinalCode(s) = "2xx"

ReportCommandResult(tok, s) == tok # "" /\ FinalCode(s) = "2xx"

\* pollCommands: an entry's command_id is usable
ValidCommandId(id) == id # "" /\ id # "null"

\* a loop that stopped at the first invalid entry (break for continue)
RECURSIVE QueuedLinesUntilInvalid(_)
QueuedLinesUntilInvalid(resp) ==
  IF resp = <<>>
  THEN <<>>
  ELSE IF ValidCommandId(Head(resp).id)
       THEN <<Head(resp)>> \o QueuedLinesUntilInvalid(Tail(resp))
       ELSE <<>>

\* pollCommands' loop over the commands of a 2xx response: the lines handed to
\* appendCommandToQueue, in order (invalid entries are passed over)
RECURSIVE QueuedLines(_)
QueuedLines(resp) ==
  IF resp = <<>>
  THEN <<>>
  ELSE IF ValidCommandId(Head(resp).id)
       THEN <<Head(resp)>> \o QueuedLines(Tail(resp))
       ELSE QueuedLines(Tail(resp))

\* the response bodies considered: up to MaxCmds commands
CommandIds == {"", "null", "c1", "c2"}
PollEntries == [id : CommandIds, type : {"GET_STATUS"}]
PollBodies == UNION {[1..n -> PollEntries] : n \in 0..MaxCmds}

\* ------------------------------------------------------------------- setup
\* RAM after setup() ran on EEPROM contents ee; hs tells whether the handshake
\* that setup() attempts for a missing identity succeeded.
SetupFrom(ee, hs) ==
  LET le == LoadedEeprom(ee)
      rc == LoadedReset(ee) + 1
      c == LoadedCounter(ee)
      missing == le.deviceId = "" \/ le.deviceToken = ""
      se == SaveCounters(le, c, rc)
  IN  /\ counter' = c
      /\ resetCounter' = rc
      /\ IF missing /\ hs
         THEN /\ eeprom' = SaveIdentity(se, "dev", "tok")
              /\ deviceId' = "dev"
              /\ deviceToken' = "tok"
         ELSE /\ eeprom' = se
              /\ deviceId' = le.deviceId
              /\ deviceToken' = le.deviceToken
      /\ now' = 0
      /\ pc' = "loop"
      /\ active' = None
      /\ activeDurationMs' = 0
      /\ activeStartMs' = 0
      /\ relays' = AllOff
      /\ buttonRelayActive' = FALSE
      /\ activeButtonRelay' = 0
      /\ buttonRelayStart' = 0
      /\ stable' = [k \in Kinds |-> FALSE]
      /\ btnLast' = [k \in Kinds |-> FALSE]
      /\ lastChangeMs' = [k \in Kinds |-> 0]
      /\ inputsInhibitUntil' = 0
      /\ currentRetryDelay' = RETRY_BASE_DELAY_MS
      /\ retryAttempts' = 0
      /\ lastUploadAttempt' = 0
      /\ commandRetryDelay' = RETRY_BASE_DELAY_MS
      /\ commandRetryAttempts' = 0
      /\ lastRaw' = [k \in Kinds |-> FALSE]
      /\ wifiReconnectionInProgress' = FALSE
      /\ lastReconnectAttempt' = 0
      /\ reconnectDelay' = RECONNECT_BASE_DELAY_MS
      /\ reconnectAttempts' = 0
      /\ wifiConnected' = FALSE
      /\ handshakeFailed' = FALSE
      /\ startKind' = None
      /\ serialCmd' = NoChar

\* The device as first powered: setup() on a blank EEPROM, ending with the
\* handshake that gave it its identity.
Init ==
  /\ now = 0
  /\ pc = "loop"
  /\ counter = [k \in Kinds |-> 0]
  /\ resetCounter = 1
  /\ active = None
  /\ activeDurationMs = 0
  /\ activeStartMs = 0
  /\ relays = AllOff
  /\ buttonRelayActive = FALSE
  /\ activeButtonRelay = 0
  /\ buttonRelayStart = 0
  /\ stable = [k \in Kinds |-> FALSE]
  /\ btnLast = [k \in Kinds |-> FALSE]
  /\ lastChangeMs = [k \in Kinds |-> 0]
  /\ inputsInhibitUntil = 0
  /\ deviceId = "dev"
  /\ deviceToken = "tok"
  /\ currentRetryDelay = RETRY_BASE_DELAY_MS
  /\ retryAttempts = 0
  /\ lastUploadAttempt = 0
  /\ eeprom = SaveIdentity(SaveCounters(LoadedEeprom(BlankEeprom),
                                       [k \in Kinds |-> 0], 1), "dev", "tok")
  /\ startKind = None
  /\ serialCmd = NoChar
  /\ lastEvent = EmptyLine
  /\ lastAppendOk = FALSE
  /\ lastEventUploaded = FALSE
  /\ commandRetryDelay = RETRY_BASE_DELAY_MS
  /\ commandRetryAttempts = 0
  /\ lastRaw = [k \in Kinds |-> FALSE]
  /\ wifiReconnectionInProgress = FALSE
  /\ lastReconnectAttempt = 0
  /\ reconnectDelay = RECONNECT_BASE_DELAY_MS
  /\ reconnectAttempts = 0
  /\ wifiConnected = FALSE
  /\ handshakeFailed = FALSE
  /\ netOp = NoOp

\* Power loss or reset at any point of the program, then setup().  The RAM
\* queues do not exist, so whatever was enqueued is gone with the RAM.
Reboot(hs) ==
  /\ LoadedReset(eeprom) + 1 <= MaxReset
  /\ SetupFrom(eeprom, hs)
  /\ UNCHANGED ghostVars

\* -------------------------------------------------------- loop(): buttons
\* One debounce block of loop() for a button: the debounced level and the
\* change stamp after sampling raw level r at time t.
\* a button block that takes the raw level as it comes
DebouncedLevelImmediate(r, st, last, t) == r

DebouncedLevel(r, st, last, t) ==
  IF r # st /\ ElapsedSince(t, last) >= BUTTON_DEBOUNCE_MS THEN r ELSE st

DebounceStamp(r, st, last, t) ==
  IF r # st /\ ElapsedSince(t, last) < BUTTON_DEBOUNCE_MS THEN last ELSE t

\* an edge detection that acts on the level of a button, pressed or held
PressEdgesLevel(ns, t) ==
  IF t >= inputsInhibitUntil THEN {k \in Kinds : ns[k]} ELSE {}

\* the press edges loop() acts on at time t, given the new debounced levels
PressEdges(ns, t) ==
  IF t >= inputsInhibitUntil THEN {k \in Kinds : ns[k] /\ ~btnLast[k]} ELSE {}

MinOf(S) == CHOOSE k \in S : \A j \in S : k <= j

\* activateButtonRelay(relayType, durationMs), called when no button relay runs
ActivateButtonRelay(relayType, t) ==
  /\ buttonRelayActive' = TRUE
  /\ activeButtonRelay' = relayType
  /\ buttonRelayStart' = t
  /\ relays' = [relays EXCEPT ![RelayOf(relayType - 1)] = TRUE,
                              ![LedOf(relayType - 1)] = TRUE]

\* deactivateButtonRelay(), called while a button relay runs
DeactivateButtonRelay(t) ==
  /\ relays' = [relays EXCEPT ![RelayOf(activeButtonRelay - 1)] = FALSE,
                              ![LedOf(activeButtonRelay - 1)] = FALSE]
  /\ buttonRelayActive' = FALSE
  /\ activeButtonRelay' = 0
  /\ inputsInhibitUntil' = (t + INHIBIT_MS) % ClockWrap
  /\ UNCHANGED buttonRelayStart

\* loop(): "Check button relay timer"
ButtonRelayExpired(t) ==
  /\ buttonRelayActive
  /\ ElapsedSince(t, buttonRelayStart) >= ButtonDurationOf(activeButtonRelay)

\* Top of loop(): d ms after the previous iteration the three buttons are
\* sampled (raw), debounced, and press edges start a button relay; of several
\* edges in one iteration only the first call finds buttonRelayActive false.
\* Then the button relay timer is checked: a relay started in this iteration
\* has run for 0 ms, so only one that ran before can expire.
Buttons(raw, d) ==
  /\ pc = "loop"
  /\ LET t == (now + d) % ClockWrap
         ns == [k \in Kinds |-> DebouncedLevel(raw[k], stable[k], lastChangeMs[k], t)]
         edges == PressEdges(ns, t)
     IN  /\ now' = t
         /\ stable' = ns
         /\ lastChangeMs' =
              [k \in Kinds |-> DebounceStamp(raw[k], stable[k], lastChangeMs[k], t)]
         /\ btnLast' = ns
         /\ lastRaw' = raw
         /\ IF edges # {} /\ ~buttonRelayActive
            THEN /\ ActivateButtonRelay(MinOf(edges) + 1, t)
                 /\ UNCHANGED inputsInhibitUntil
            ELSE IF ButtonRelayExpired(t)
                 THEN DeactivateButtonRelay(t)
                 ELSE UNCHANGED <<btnRelayVars, relays, inputsInhibitUntil>>
  /\ pc' = "serial"
  /\ lastEvent' = EmptyLine
  /\ lastAppendOk' = FALSE
  /\ lastEventUploaded' = FALSE
  /\ netOp' = NoOp
  /\ UNCHANGED <<counter, resetCounter, treatVars, identVars, retryVars,
                 cmdRetryVars, wifiVars, eeprom, startKind, serialCmd>>

\* --------------------------------------------------- loop(): serial commands
\* a startTimer without its guard
StartTimerUnguarded(a) == FALSE

\* startTimer's guard: the call returns at once while a treatment is active
StartTimerRejected(a) == a # None

\* stopTreatment()
StopTreatment ==
  IF active = None
  THEN UNCHANGED <<treatVars, relays>>
  ELSE /\ relays' = AllOff
       /\ active' = None
       /\ activeDurationMs' = 0
       /\ activeStartMs' = 0

\* Nothing to read from Serial.
SerialIdle ==
  /\ pc = "serial"
  /\ lastRaw' = [k \in Kinds |-> FALSE]
  /\ pc' = "tick"
  /\ UNCHANGED <<now, counter, resetCounter, treatVars, relays, btnRelayVars,
                 stable, btnLast, lastChangeMs, inputsInhibitUntil, identVars, retryVars,
                 cmdRetryVars, wifiVars, eeprom,
                 startKind, serialCmd, ghostVars>>

\* 'b' / 's' / 'p': startTimer(t), up to and including counterX++
SerialStart(c) ==
  /\ pc = "serial"
  /\ lastRaw' = [k \in Kinds |-> FALSE]
  /\ c \in StartChars
  /\ serialCmd' = c
  /\ IF StartTimerRejected(active)
     THEN /\ pc' = "tick"
          /\ UNCHANGED <<counter, activeDurationMs, startKind>>
     ELSE /\ TotalCount(counter) < MaxStarts
          /\ activeDurationMs' = DurationOf(KindOfChar(c))
          /\ counter' = IncCounter(counter, KindOfChar(c))
          /\ startKind' = KindOfChar(c)
          /\ pc' = "st_enqueue"
  /\ UNCHANGED <<now, resetCounter, active, activeStartMs, relays, btnRelayVars,
                 stable, btnLast, lastChangeMs, inputsInhibitUntil, identVars, retryVars,
                 cmdRetryVars, wifiVars, eeprom,
                 ghostVars>>

\* 'x': stopTreatment()
SerialStop ==
  /\ pc = "serial"
  /\ lastRaw' = [k \in Kinds |-> FALSE]
  /\ serialCmd' = "x"
  /\ StopTreatment
  /\ pc' = "tick"
  /\ UNCHANGED <<now, counter, resetCounter, btnRelayVars, stable, btnLast, lastChangeMs,
                 inputsInhibitUntil, identVars, retryVars,
                 cmdRetryVars, wifiVars, eeprom, startKind,
                 ghostVars>>

\* 'r': the reset relay is pulsed for RESET_PULSE_MS (a delay() inside loop),
\* then the three counters are zeroed and their cells written and committed
SerialReset ==
  /\ pc = "serial"
  /\ lastRaw' = [k \in Kinds |-> FALSE]
  /\ serialCmd' = "r"
  /\ now' = (now + RESET_PULSE_MS) % ClockWrap
  /\ counter' = [k \in Kinds |-> 0]
  /\ eeprom' = [eeprom EXCEPT !.counter = [k \in Kinds |-> 0]]
  /\ pc' = "tick"
  /\ UNCHANGED <<resetCounter, treatVars, relays, btnRelayVars, stable, btnLast,
                 lastChangeMs, inputsInhibitUntil, identVars, retryVars,
                 cmdRetryVars, wifiVars, startKind, ghostVars>>

\* the event line enqueueTreatmentEvent serialises: treatment, counter, and
\* the parts generateEventId puts into event_id
EventLine(t, counterVal) ==
  <<[treatment |-> t, counter |-> counterVal, reset |-> resetCounter,
     uptime |-> now \div 1000, device |-> deviceId]>>

\* startTimer: enqueueTreatmentEvent(t, counterX)
StEnqueue ==
  /\ pc = "st_enqueue"
  /\ lastEvent' = EventLine(startKind, counter[startKind])
  /\ lastAppendOk' = AppendEventToQueue(EventLine(startKind, counter[startKind]))
  /\ lastEventUploaded' = FALSE
  /\ pc' = "st_relay"
  /\ UNCHANGED <<now, counter, resetCounter, treatVars, relays, btnRelayVars,
                 buttonVars, inputsInhibitUntil, identVars, retryVars,
                 cmdRetryVars, wifiVars, eeprom, startKind, serialCmd, netOp>>

\* startTimer: the kind's relay and LED mirror on
StRelay ==
  /\ pc = "st_relay"
  /\ relays' = [relays EXCEPT ![RelayOf(startKind)] = TRUE,
                              ![LedOf(startKind)] = TRUE]
  /\ pc' = "st_save"
  /\ UNCHANGED <<now, counter, resetCounter, treatVars, btnRelayVars, buttonVars,
                 inputsInhibitUntil, identVars, retryVars,
                 cmdRetryVars, wifiVars, eeprom, startKind,
                 serialCmd, ghostVars>>

\* startTimer: saveCounters(); active=t; activeStartMs=millis()
StSave ==
  /\ pc = "st_save"
  /\ eeprom' = SaveCounters(eeprom, counter, resetCounter)
  /\ active' = startKind
  /\ activeStartMs' = now
  /\ startKind' = None
  /\ pc' = "tick"
  /\ UNCHANGED <<now, counter, resetCounter, activeDurationMs, relays,
                 btnRelayVars, buttonVars, inputsInhibitUntil, identVars,
                 retryVars, cmdRetryVars, wifiVars, serialCmd, ghostVars>>

\* ----------------------------------------------------- loop(): treatment tick
\* an expiry test on absolute clock readings, which a clock wrap defeats
TimerExpiredAbsolute ==
  active # None /\ now >= activeStartMs + activeDurationMs

TimerExpired ==
  active # None /\ ElapsedSince(now, activeStartMs) >= activeDurationMs

Tick ==
  /\ pc = "tick"
  /\ IF TimerExpired THEN StopTreatment ELSE UNCHANGED <<treatVars, relays>>
  /\ pc' = "net"
  /\ serialCmd' = NoChar
  /\ UNCHANGED <<now, counter, resetCounter, btnRelayVars, buttonVars,
                 inputsInhibitUntil, identVars, retryVars,
                 cmdRetryVars, wifiVars, eeprom, startKind,
                 ghostVars>>

\* ------------------------------------------------------- loop(): sync engine
\* resetBackoff()
ResetBackoff ==
  /\ currentRetryDelay' = RETRY_BASE_DELAY_MS
  /\ retryAttempts' = 0

\* nextBackoffMs(): its return value for the delay d it found and the jitter
\* offset off that random() drew from -j..j, j = d*RETRY_JITTER_PERCENT/100
JitterOf(d) == (d * RETRY_JITTER_PERCENT) \div 100
JitterChoices(d) == {0 - JitterOf(d), 0, JitterOf(d)}
BackoffReturn(d, off) == IF d + off < 1000 THEN 1000 ELSE d + off

\* uploadEventJson(line): a request is sent only with a token; http2xx is the
\* backend's answer
UploadEventJson(http2xx) == deviceToken # "" /\ http2xx

\* nextBackoffMs(): what it leaves in currentRetryDelay for the delay d it found
BackoffStored(d) ==
  IF 2 * d < RETRY_MAX_DELAY_MS THEN 2 * d ELSE RETRY_MAX_DELAY_MS

\* loop(): "Process event queue" with a non-empty queue whose front is line
UploadBranch(line, http2xx, off) ==
  IF ElapsedSince(now, lastUploadAttempt) >= currentRetryDelay
  THEN /\ lastUploadAttempt' = now
       /\ IF Len(line) > 0
          THEN IF UploadEventJson(http2xx)
               THEN /\ IF PopEvent
                       THEN ResetBackoff
                       ELSE UNCHANGED <<currentRetryDelay, retryAttempts>>
                    /\ lastEventUploaded' = (lastEventUploaded \/ line = lastEvent)
               ELSE /\ currentRetryDelay' = BackoffReturn(currentRetryDelay, off)
                    /\ retryAttempts' = (retryAttempts + 1) % 256
                    /\ UNCHANGED lastEventUploaded
          ELSE UNCHANGED <<currentRetryDelay, retryAttempts, lastEventUploaded>>
  ELSE UNCHANGED <<retryVars, lastEventUploaded>>

\* loop(): "Process event queue"
EventQueueStep(http2xx, off) ==
  IF QueueSize > 0
  THEN UploadBranch(ReadNextEvent, http2xx, off)
  ELSE /\ ResetBackoff
       /\ UNCHANGED <<lastUploadAttempt, lastEventUploaded>>

\* processCommandQueue(): commandQueueSize() is 0, so no record is ever read
\* and executeCommand is never reached from loop()
ProcessCommandQueue == CommandQueueSize = 0

\* loop(): the WiFi branch.  WiFi.status() is sampled (up).  Connected and
\* without identity, a handshake is attempted (hs: it succeeded); then the
\* command queue and the event queue are processed.  Not connected, only the
\* sampled link status is recorded; the reconnection trigger of the offline
\* branch is modelled in NetBeginC.
Sync(up, hs, http2xx, off) ==
  /\ pc = "net"
  /\ off \in JitterChoices(currentRetryDelay)
  /\ IF up /\ (deviceId = "" \/ deviceToken = "") /\ hs
     THEN /\ eeprom' = SaveIdentity(eeprom, "dev", "tok")
          /\ deviceId' = "dev"
          /\ deviceToken' = "tok"
     ELSE UNCHANGED <<eeprom, identVars>>
  /\ IF up
     THEN ProcessCommandQueue /\ EventQueueStep(http2xx, off)
     ELSE UNCHANGED <<retryVars, lastEventUploaded>>
  /\ pc' = "loop"
  /\ netOp' = NoOp
  /\ wifiConnected' = up
  /\ handshakeFailed' = (up /\ (deviceId = "" \/ deviceToken = "") /\ ~hs)
  /\ UNCHANGED <<now, counter, resetCounter, treatVars, relays, btnRelayVars,
                 buttonVars, inputsInhibitUntil, startKind, serialCmd, lastEvent,
                 lastAppendOk, cmdRetryVars, reconnectVars>>

\* ------------------------------------------------------- command execution
\* the type strings parseCommandType knows
KnownTypeNames == CommandTypes \ {"UNKNOWN"}

\* a parser that takes a name it does not know for a reboot request
ParseCommandTypeDefaultReboot(typeStr) ==
  IF typeStr \in KnownTypeNames THEN typeStr ELSE "REBOOT_DEVICE"

\* parseCommandType(typeStr)
ParseCommandType(typeStr) ==
  IF typeStr \in KnownTypeNames THEN typeStr ELSE "UNKNOWN"

\* the "type" strings of stored commands considered: the eight names, the
\* string a missing command_type is stored as, and a name the firmware does
\* not know
StoredTypeStrings == KnownTypeNames \cup {"null", "SELF_TEST"}

\* a default branch that reports success
HandlerSuccessAlways(type) == TRUE

\* executeCommand's switch: the success flag it hands to reportCommandResult
HandlerSuccess(type) == type \notin {"UPDATE_FIRMWARE", "UNKNOWN"}

\* a RESET_COUNTERS handler that forgot the premium counter
HandlerCounterKeepPremium(type) ==
  IF type = "RESET_COUNTERS"
  THEN [k \in Kinds |-> IF k = Premium THEN counter[k] ELSE 0]
  ELSE counter

\* executeCommand's switch: counters, resetCounter and EEPROM after the
\* handler of a command type (REBOOT_DEVICE restarts instead, see below)
HandlerCounter(type) ==
  IF type = "RESET_COUNTERS" THEN [k \in Kinds |-> 0] ELSE counter

HandlerReset(type) ==
  IF type = "RESET_COUNTERS" THEN resetCounter + 1 ELSE resetCounter

\* CLEAR_MEMORY writes 0xFF to every cell outside the WiFi SSID region
HandlerEeprom(type) ==
  CASE type = "RESET_COUNTERS" ->
         SaveCounters(eeprom, HandlerCounter(type), HandlerReset(type))
    [] type = "CLEAR_MEMORY" -> BlankEeprom
    [] OTHER -> eeprom

\* processCommandQueue handed a stored command with the given id and type
\* string:
\* executeCommand(commandId, parseCommandType(..), payload), whose last statement is
\* reportCommandResult, then popCommand() whatever the report returned.  s is
\* what the backend does with the report; without a token no request is sent.
\* REBOOT_DEVICE calls ESP.restart() inside the switch: neither the report nor
\* the pop is reached, and setup() runs (hs: its handshake succeeded).
ExecuteCommandOf(id, typeStr, s, hs) ==
  LET type == ParseCommandType(typeStr)
  IN
  /\ pc = "net"
  /\ IF type = "REBOOT_DEVICE"
     THEN /\ LoadedReset(eeprom) + 1 <= MaxReset
          /\ SetupFrom(eeprom, hs)
          /\ netOp' = [NoOp EXCEPT !.op = "execute", !.type = type,
                                   !.id = id, !.parsed = TRUE,
                                   !.typeStr = typeStr,
                                   !.hadToken = (deviceToken # "")]
     ELSE /\ HandlerReset(type) <= MaxReset
          /\ counter' = HandlerCounter(type)
          /\ resetCounter' = HandlerReset(type)
          /\ IF deviceToken # "" /\ s.first = "401" /\ s.hs
             THEN /\ eeprom' = SaveIdentity(HandlerEeprom(type), "dev", "tok")
                  /\ deviceId' = "dev"
                  /\ deviceToken' = "tok"
             ELSE /\ eeprom' = HandlerEeprom(type)
                  /\ UNCHANGED identVars
          /\ netOp' = [NoOp EXCEPT
                         !.op = "execute",
                         !.id = id,
                         !.parsed = TRUE,
                         !.type = type,
                         !.typeStr = typeStr,
                         !.hadToken = (deviceToken # ""),
                         !.first = IF deviceToken # "" THEN s.first ELSE "none",
                         !.handshakes = HandshakeCalls(deviceToken, s),
                         !.hsOk = (deviceToken # "" /\ RetriedOn401(s)),
                         !.requests = RequestsSent(deviceToken, s),
                         !.last = IF deviceToken # "" THEN FinalCode(s) ELSE "none",
                         !.ok = ReportCommandResult(deviceToken, s),
                         !.popped = PopCommand,
                         !.reports = 1,
                         !.success = HandlerSuccess(type),
                         !.snapshot = IF deviceToken # ""
                                      THEN <<HandlerCounter(type)>> ELSE <<>>]
          /\ UNCHANGED <<now, pc, treatVars, relays, btnRelayVars, buttonVars,
                         inputsInhibitUntil, retryVars, cmdRetryVars, wifiVars, startKind,
                         serialCmd>>
  /\ UNCHANGED <<lastEvent, lastAppendOk, lastEventUploaded>>

\* the same for a command whose stored id is "c1"
ExecuteCommand(typeStr, s, hs) == ExecuteCommandOf("c1", typeStr, s, hs)

\* The records readNextCommand may hand to processCommandQueue from a queue
\* that stores lines: nothing (an empty string), a line that is not JSON, a
\* JSON line with its "id" and "type".
StoredRecords ==
  {[line |-> "", id |-> "", type |-> ""],
   [line |-> "garbage", id |-> "", type |-> ""]}
  \cup [line : {"json"}, id : CommandIds,
        type : {"GET_STATUS", "RESET_COUNTERS"}]

\* a queue processor that drops unparseable lines only
RecordDroppedUnparsedOnly(rec) == rec.line # "json"

\* processCommandQueue: the record is popped without being executed
RecordDropped(rec) == rec.line # "json" \/ ~ValidCommandId(rec.id)

\* processCommandQueue run on a queue whose front is rec: an empty read ends
\* the call; a line that does not parse, or whose id is empty or "null", is
\* popped and the call returns; any other is executed, reported and popped.
ProcessStoredRecord(rec, s) ==
  IF rec.line # "" /\ ~RecordDropped(rec)
  THEN ExecuteCommandOf(rec.id, rec.type, s, FALSE)
  ELSE /\ pc = "net"
       /\ netOp' = IF rec.line = ""
                   THEN NoOp
                   ELSE [NoOp EXCEPT !.op = "drop",
                                     !.id = rec.id,
                                     !.parsed = (rec.line = "json"),
                                     !.popped = PopCommand]
       /\ UNCHANGED <<now, pc, counter, resetCounter, treatVars, relays,
                      btnRelayVars, buttonVars, inputsInhibitUntil, identVars,
                      retryVars, cmdRetryVars, wifiVars, eeprom, startKind,
                      serialCmd, lastEvent, lastAppendOk, lastEventUploaded>>

\* ------------------------------------------- loop(): the sync engine by steps
\* a request of the main task ended with a connection error (code -1; for an
\* upload or a handshake also -2, -3): the background task is asked to
\* reconnect at once
ConnectionErrorSeen ==
  /\ wifiReconnectionInProgress' = TRUE
  /\ lastReconnectAttempt' = 0
  /\ UNCHANGED <<reconnectDelay, reconnectAttempts>>

\* a trigger that fires on the first loss of the link only
ReconnectTriggerFirstOnly(due, inProgress) ==
  due /\ ~inProgress /\ reconnectAttempts = 0

\* loop(), the branch taken without WiFi: the test that hands the link to the
\* background task
ReconnectTrigger(due, inProgress) == due /\ ~inProgress

\* loop(): the WiFi branch up to and including processCommandQueue, and the
\* branch taken without WiFi.  conn: a failed handshake ended with a connection
\* error; due: reconnectDelay has passed since lastReconnectAttempt (the delay
\* is longer than the clock range modelled, so this is an input).
NetBeginC(up, hs, conn, due) ==
  /\ pc = "net"
  /\ IF up /\ (deviceId = "" \/ deviceToken = "") /\ hs
     THEN /\ eeprom' = SaveIdentity(eeprom, "dev", "tok")
          /\ deviceId' = "dev"
          /\ deviceToken' = "tok"
     ELSE UNCHANGED <<eeprom, identVars>>
  /\ IF up THEN ProcessCommandQueue /\ pc' = "poll" ELSE pc' = "loop"
  /\ netOp' = NoOp
  /\ wifiConnected' = up
  /\ handshakeFailed' = (up /\ (deviceId = "" \/ deviceToken = "") /\ ~hs)
  /\ IF up
     THEN IF (deviceId = "" \/ deviceToken = "") /\ ~hs /\ conn
          THEN ConnectionErrorSeen
          ELSE UNCHANGED reconnectVars
     ELSE IF ReconnectTrigger(due, wifiReconnectionInProgress)
          THEN /\ wifiReconnectionInProgress' = TRUE
               /\ lastReconnectAttempt' = now
               /\ UNCHANGED <<reconnectDelay, reconnectAttempts>>
          ELSE UNCHANGED reconnectVars
  /\ UNCHANGED <<now, counter, resetCounter, treatVars, relays, btnRelayVars,
                 buttonVars, inputsInhibitUntil, retryVars, cmdRetryVars,
                 startKind, serialCmd, lastEvent, lastAppendOk, lastEventUploaded>>

\* the same with every request answered by the backend and (as the modelled
\* clock has it) reconnectDelay not yet passed
NetBegin(up, hs) == NetBeginC(up, hs, FALSE, FALSE)

\* loop(): "Poll for new commands".  due: COMMAND_POLL_INTERVAL_MS has passed
\* since the last poll; s and body: what the backend does and the commands of
\* its 2xx answer; off: the jitter nextBackoffMs draws after a failed poll;
\* conn: a request that got no answer (the poll's, or that of the handshake
\* made on 401) ended with a connection error.
PollStepC(due, s, body, off, conn) ==
  /\ pc = "poll"
  /\ off \in JitterChoices(currentRetryDelay)
  /\ IF /\ due /\ deviceToken # "" /\ conn
        /\ (FinalCode(s) = "err" \/ (s.first = "401" /\ ~s.hs))
     THEN ConnectionErrorSeen
     ELSE UNCHANGED reconnectVars
  /\ UNCHANGED <<wifiConnected, handshakeFailed>>
  /\ IF ~due
     THEN /\ netOp' = NoOp
          /\ UNCHANGED <<eeprom, identVars, currentRetryDelay, retryAttempts,
                         cmdRetryVars>>
     ELSE /\ IF deviceToken # "" /\ s.first = "401" /\ s.hs
             THEN /\ eeprom' = SaveIdentity(eeprom, "dev", "tok")
                  /\ deviceId' = "dev"
                  /\ deviceToken' = "tok"
             ELSE UNCHANGED <<eeprom, identVars>>
          /\ netOp' = [NoOp EXCEPT
                         !.op = "poll",
                         !.hadToken = (deviceToken # ""),
                         !.first = IF deviceToken # "" THEN s.first ELSE "none",
                         !.handshakes = HandshakeCalls(deviceToken, s),
                         !.hsOk = (deviceToken # "" /\ RetriedOn401(s)),
                         !.requests = RequestsSent(deviceToken, s),
                         !.last = IF deviceToken # "" THEN FinalCode(s) ELSE "none",
                         !.ok = PollCommands(deviceToken, s),
                         !.resp = IF PollCommands(deviceToken, s) THEN body ELSE <<>>,
                         !.appended = IF PollCommands(deviceToken, s)
                                      THEN QueuedLines(body) ELSE <<>>]
          /\ IF PollCommands(deviceToken, s)
             THEN /\ commandRetryDelay' = RETRY_BASE_DELAY_MS
                  /\ commandRetryAttempts' = 0
                  /\ UNCHANGED <<currentRetryDelay, retryAttempts>>
             ELSE /\ retryAttempts < MaxFailures
                  /\ commandRetryAttempts < MaxFailures
                  /\ commandRetryDelay' = BackoffReturn(currentRetryDelay, off)
                  /\ commandRetryAttempts' = (commandRetryAttempts + 1) % 256
                  /\ currentRetryDelay' = BackoffStored(currentRetryDelay)
                  /\ retryAttempts' = (retryAttempts + 1) % 256
  /\ pc' = "evq"
  /\ UNCHANGED <<now, counter, resetCounter, treatVars, relays, btnRelayVars,
                 buttonVars, inputsInhibitUntil, lastUploadAttempt, startKind,
                 serialCmd, lastEvent, lastAppendOk, lastEventUploaded>>

\* the same with every request answered by the backend
PollStep(due, s, body, off) == PollStepC(due, s, body, off, FALSE)

\* loop(): "Process event queue" as the device runs it: queueSize() is 0
EventStep(http2xx, off) ==
  /\ pc = "evq"
  /\ off \in JitterChoices(currentRetryDelay)
  /\ EventQueueStep(http2xx, off)
  /\ netOp' = NoOp
  /\ pc' = "loop"
  /\ UNCHANGED <<now, counter, resetCounter, treatVars, relays, btnRelayVars,
                 buttonVars, inputsInhibitUntil, identVars, eeprom, cmdRetryVars, wifiVars,
                 startKind, serialCmd, lastEvent, lastAppendOk>>

\* a line that an earlier start left in a queue that stores what it is given
StoredLine == <<[treatment |-> Basic, counter |-> 1]>>

\* loop(): "Process event queue" run on a queue that holds StoredLine; code is
\* the backend's answer to the upload; conn: an upload that got no answer
\* ended with a connection error.
StoredEventStepC(code, off, conn) ==
  /\ pc = "evq"
  /\ off \in JitterChoices(currentRetryDelay)
  /\ IF /\ ElapsedSince(now, lastUploadAttempt) >= currentRetryDelay
        /\ deviceToken # "" /\ code = "err" /\ conn
     THEN ConnectionErrorSeen
     ELSE UNCHANGED reconnectVars
  /\ UNCHANGED <<wifiConnected, handshakeFailed>>
  /\ LET due == ElapsedSince(now, lastUploadAttempt) >= currentRetryDelay
         ok == UploadEventJson(code = "2xx")
     IN  /\ (due /\ ~ok) => retryAttempts < MaxUploadRetries
         /\ netOp' = IF due
                     THEN [NoOp EXCEPT
                             !.op = "upload",
                             !.hadToken = (deviceToken # ""),
                             !.first = IF deviceToken # "" THEN code ELSE "none",
                             !.requests = IF deviceToken # "" THEN 1 ELSE 0,
                             !.last = IF deviceToken # "" THEN code ELSE "none",
                             !.ok = ok,
                             !.popped = (ok /\ PopEvent)]
                     ELSE NoOp
  /\ UploadBranch(StoredLine, code = "2xx", off)
  /\ pc' = "loop"
  /\ UNCHANGED <<now, counter, resetCounter, treatVars, relays, btnRelayVars,
                 buttonVars, inputsInhibitUntil, identVars, eeprom, cmdRetryVars,
                 startKind, serialCmd, lastEvent, lastAppendOk>>

\* the same with every request answered by the backend
StoredEventStep(code, off) == StoredEventStepC(code, off, FALSE)

\* ------------------------------------------- wifiTask: background reconnection
\* reconnectDelay after the given number of failed attempts in a row
ReconnectDelayAfter(n) ==
  IF RECONNECT_BASE_DELAY_MS + n * RECONNECT_STEP_MS < RECONNECT_MAX_DELAY_MS
  THEN RECONNECT_BASE_DELAY_MS + n * RECONNECT_STEP_MS
  ELSE RECONNECT_MAX_DELAY_MS

\* wifiTask: one reconnection attempt, from the request flag to its outcome:
\* WiFi.disconnect(), WiFi.begin(), the wait for the link (connected:
\* WiFi.status() became WL_CONNECTED within the timeout).  Runs of failed
\* attempts are followed up to maxRun deep.
WifiTaskAttemptC(connected, maxRun) ==
  /\ wifiReconnectionInProgress
  /\ IF connected
     THEN /\ reconnectAttempts' = 0
          /\ reconnectDelay' = RECONNECT_BASE_DELAY_MS
     ELSE /\ reconnectAttempts < maxRun
          /\ reconnectAttempts' = (reconnectAttempts + 1) % AttemptsRange
          /\ reconnectDelay' =
               ReconnectDelayAfter((reconnectAttempts + 1) % AttemptsRange)
  /\ wifiReconnectionInProgress' = FALSE
  /\ wifiConnected' = connected
  /\ UNCHANGED <<now, pc, counter, resetCounter, treatVars, relays, btnRelayVars,
                 buttonVars, inputsInhibitUntil, identVars, retryVars,
                 cmdRetryVars, eeprom, startKind, serialCmd, ghostVars,
                 lastReconnectAttempt, handshakeFailed>>

\* the same with runs of failed attempts followed MaxReconnects deep
WifiTaskAttempt(connected) == WifiTaskAttemptC(connected, MaxReconnects)

\* ------------------------------------------------------------ specification
Released == [k \in Kinds |-> FALSE]

\* raw button levels with at most MaxPressed buttons held down at a time
RawLevels ==
  {r \in [Kinds -> BOOLEAN] : Cardinality({k \in Kinds : r[k]}) <= MaxPressed}

\* what loop() does between the button block and the end of the iteration
LoopRest ==
  \/ SerialIdle
  \/ \E c \in StartChars : SerialStart(c)
  \/ SerialStop
  \/ StEnqueue
  \/ StRelay
  \/ StSave
  \/ Tick
  \/ \E up \in BOOLEAN, hs \in BOOLEAN, ok \in BOOLEAN,
        off \in JitterChoices(currentRetryDelay) : Sync(up, hs, ok, off)

\* The device operated from the serial console, with power losses; nobody
\* touches the front-panel buttons.
Next ==
  \/ \E d \in {0, StepMs} : Buttons(Released, d)
  \/ LoopRest
  \/ \E hs \in BOOLEAN : Reboot(hs)

Spec == Init /\ [][Next]_vars

\* The device operated from the front panel and the serial console, powered
\* throughout.
PanelNext ==
  \/ \E raw \in RawLevels, d \in {0, StepMs} : Buttons(raw, d)
  \/ LoopRest

PanelSpec == Init /\ [][PanelNext]_vars

\* The serial-console device when processCommandQueue is handed a command of
\* any type at its place in loop(), as a queue that stored the polled records
\* would hand it.
CmdNext ==
  \/ Next
  \/ \E typeStr \in StoredTypeStrings \ {"REBOOT_DEVICE"}, s \in Scripts :
       ExecuteCommand(typeStr, s, FALSE)
  \/ \E s \in Scripts, hs \in BOOLEAN :
       s.first = "err" /\ ExecuteCommand("REBOOT_DEVICE", s, hs)

CmdSpec == Init /\ [][CmdNext]_vars

\* The serial-console device with both ways of zeroing the counters: the
\* serial 'r' command and a stored RESET_COUNTERS command handed to
\* processCommandQueue.
ResetNext ==
  \/ Next
  \/ SerialReset
  \/ \E s \in Scripts : ExecuteCommand("RESET_COUNTERS", s, FALSE)

ResetSpec == Init /\ [][ResetNext]_vars

\* A device nobody operates, with processCommandQueue run as written on
\* whatever a storing command queue may hold at its front.
QueueNext ==
  \/ \E d \in {0, StepMs} : Buttons(Released, d)
  \/ SerialIdle
  \/ Tick
  \/ \E up \in BOOLEAN, hs \in BOOLEAN, ok \in BOOLEAN,
        off \in JitterChoices(currentRetryDelay) : Sync(up, hs, ok, off)
  \/ \E rec \in StoredRecords, s \in Scripts : ProcessStoredRecord(rec, s)

QueueSpec == Init /\ [][QueueNext]_vars

\* A device left running: loop() iterates for ever and the clock advances;
\* nobody types 'x' and power stays on, so a treatment ends by its timer only.
RunNext ==
  \/ \E raw \in RawLevels, d \in {0, StepMs} : Buttons(raw, d)
  \/ SerialIdle
  \/ \E c \in StartChars : SerialStart(c)
  \/ StEnqueue
  \/ StRelay
  \/ StSave
  \/ Tick
  \/ \E up \in BOOLEAN, hs \in BOOLEAN, ok \in BOOLEAN,
        off \in JitterChoices(currentRetryDelay) : Sync(up, hs, ok, off)

RunSpec ==
  /\ Init
  /\ [][RunNext]_vars
  /\ WF_vars(RunNext)
  /\ SF_vars(\E raw \in RawLevels : Buttons(raw, StepMs))

\* The sync engine step by step, on a device nobody operates.  The branches
\* that the stubbed queues keep loop() from reaching are run as written: the
\* upload of a stored line and the execution of a stored command.
\* the inputs of a poll step that make a difference to it: a body is read
\* after a 2xx answer only, jitter is drawn after a failed poll only
PollBodiesFor(due, s) ==
  IF due /\ PollCommands(deviceToken, s) THEN PollBodies ELSE {<<>>}

PollJitterFor(due, s) ==
  IF due /\ ~PollCommands(deviceToken, s)
  THEN JitterChoices(currentRetryDelay) ELSE {0}

\* what loop() does on a device nobody operates, up to the sync engine
IdleLoop ==
  \/ \E d \in {0, StepMs} : Buttons(Released, d)
  \/ SerialIdle
  \/ Tick
  \/ \E up \in BOOLEAN, hs \in BOOLEAN : NetBegin(up, hs)

\* The two retry domains of the sync engine, step by step, with failed polls
\* followed MaxFailures deep.  The upload branch that the stubbed queue keeps
\* loop() from reaching is run as written, on a queue holding a stored line;
\* the backend returns no commands.
BackoffNext ==
  \/ IdleLoop
  \/ \E due \in BOOLEAN, s \in Scripts :
       \E off \in PollJitterFor(due, s) : PollStep(due, s, <<>>, off)
  \/ \E off \in JitterChoices(currentRetryDelay) : EventStep(TRUE, off)
  \/ \E code \in Codes, off \in JitterChoices(currentRetryDelay) :
       StoredEventStep(code, off)

BackoffSpec == Init /\ [][BackoffNext]_vars

\* The authenticated calls of the sync engine, step by step, with the backend
\* returning commands, and with the execution of a stored command run as
\* written (a status request, a memory clear, a counter reset, an unknown
\* name, a reboot); failures are followed MaxAuthFailures deep.  Power stays on: setup() runs only if the program
\* restarts the device.
NetTypeStrings == {"GET_STATUS", "CLEAR_MEMORY", "RESET_COUNTERS", "SELF_TEST"}

AuthDepth ==
  /\ retryAttempts' <= MaxAuthFailures
  /\ commandRetryAttempts' <= MaxAuthFailures

NetNext ==
  \/ IdleLoop /\ AuthDepth
  \/ \E due \in BOOLEAN, s \in Scripts :
       \E body \in PollBodiesFor(due, s), off \in PollJitterFor(due, s) :
         PollStep(due, s, body, off) /\ AuthDepth
  \/ \E off \in JitterChoices(currentRetryDelay) : EventStep(TRUE, off) /\ AuthDepth
  \/ \E code \in Codes, off \in JitterChoices(currentRetryDelay) :
       StoredEventStep(code, off) /\ AuthDepth
  \/ \E typeStr \in NetTypeStrings, s \in Scripts :
       ExecuteCommand(typeStr, s, FALSE) /\ AuthDepth
  \/ \E s \in Scripts, hs \in BOOLEAN :
       s.first = "err" /\ ExecuteCommand("REBOOT_DEVICE", s, hs) /\ AuthDepth

NetSpec == Init /\ [][NetNext]_vars

\* The link and the sync engine together, on a device nobody operates: WiFi
\* comes and goes, requests end with connection errors, the background task
\* makes up to MaxReconnects failed attempts in a row; the upload branch runs
\* on a stored line and the backend returns no commands.
WifiNext ==
  \/ \E d \in {0, StepMs} : Buttons(Released, d)
  \/ SerialIdle
  \/ Tick
  \/ \E up \in BOOLEAN, hs \in BOOLEAN, conn \in BOOLEAN, due \in BOOLEAN :
       NetBeginC(up, hs, conn, due)
  \/ \E due \in BOOLEAN, s \in Scripts, conn \in BOOLEAN :
       \E off \in PollJitterFor(due, s) :
         PollStepC(due, s, <<>>, off, conn) /\ AuthDepth
  \/ \E code \in Codes, conn \in BOOLEAN,
        off \in JitterChoices(currentRetryDelay) :
       StoredEventStepC(code, off, conn) /\ AuthDepth
  \/ \E connected \in BOOLEAN : WifiTaskAttempt(connected)

WifiSpec == Init /\ [][WifiNext]_vars

\* A device whose link went down and stays down, nobody operating it: every
\* reconnection attempt fails, for as long as it takes reconnectAttempts to
\* go through its whole range.  The main task keeps iterating and wifiTask
\* keeps running (it looks at the flag once a second); the clock advances, so
\* that an iteration comes in which reconnectDelay has passed since
\* lastReconnectAttempt.
DownLoop ==
  \/ \E d \in {0, StepMs} : Buttons(Released, d)
  \/ SerialIdle
  \/ Tick
  \/ \E due \in BOOLEAN : NetBeginC(FALSE, FALSE, FALSE, due)

ReconnectComesDue ==
  ~wifiReconnectionInProgress /\ NetBeginC(FALSE, FALSE, FALSE, TRUE)

DownNext ==
  \/ DownLoop
  \/ WifiTaskAttemptC(FALSE, AttemptsRange)

DownSpec ==
  /\ Init
  /\ [][DownNext]_vars
  /\ WF_vars(DownLoop)
  /\ WF_vars(WifiTaskAttemptC(FALSE, AttemptsRange))
  /\ SF_vars(ReconnectComesDue)

\* The front panel sampled at loop() speed during the first DebounceHorizonMs
\* after boot: iterations 0, 20 or 30 ms apart, so that a raw level is seen
\* for less than, exactly and more than BUTTON_DEBOUNCE_MS; no serial input,
\* no WiFi.
FineSteps == {0, 20, 30}

DebounceNext ==
  \/ \E raw \in RawLevels, d \in FineSteps :
       now + d <= DebounceHorizonMs /\ Buttons(raw, d)
  \/ SerialIdle
  \/ Tick
  \/ Sync(FALSE, FALSE, FALSE, 0)

DebounceSpec == Init /\ [][DebounceNext]_vars

\* The front panel with fingers that stay on the buttons, during the first
\* HoldHorizonMs after boot: iterations 0 ms, HoldStepMs or StepMs apart, so
\* that a press can begin while a button relay runs and inside the INHIBIT_MS
\* after it ended; no serial input, no WiFi.
HoldStepMs == 100

HoldNext ==
  \/ \E raw \in RawLevels, d \in {0, HoldStepMs, StepMs} :
       now + d <= HoldHorizonMs /\ Buttons(raw, d)
  \/ SerialIdle
  \/ Tick
  \/ Sync(FALSE, FALSE, FALSE, 0)

HoldSpec == Init /\ [][HoldNext]_vars

\* ------------------------------------------------------------------ claims
\* the treatment relays that are energized
TreatmentRelaysOn == {k \in Kinds : relays[RelayOf(k)]}

\* C1: an event created by a treatment start is never discarded before a 2xx
\* upload of it: as long as it has not been uploaded it is in the event queue.
C1_EventKeptUntilUploaded ==
  (lastEvent # EmptyLine /\ ~lastEventUploaded) => QueueSize > 0

\* C2: under button presses, serial start/stop commands and timer expiries at
\* most one of the three treatment relays relays[0..2] is energized.
C2_AtMostOneTreatmentRelay == Cardinality(TreatmentRelaysOn) <= 1

\* C3: startTimer(k) called while idle increases counter k by exactly one and
\* leaves the other two counters and resetCounter unchanged, up to its return.
C3_StartIncrementsExactlyOne ==
  [][/\ (pc = "serial" /\ pc' = "st_enqueue") =>
          /\ counter'[KindOfChar(serialCmd')] = counter[KindOfChar(serialCmd')] + 1
          /\ \A j \in Kinds \ {KindOfChar(serialCmd')} : counter'[j] = counter[j]
          /\ resetCounter' = resetCounter
     /\ (pc \in {"st_enqueue", "st_relay", "st_save"} /\ pc' # "loop") =>
          /\ counter' = counter
          /\ resetCounter' = resetCounter]_vars

\* a second start of the same kind has returned: its counter went from 1 to 2
C3_Witness == active # None /\ pc = "tick" /\ counter[active] = 2

\* C4: when startTimer(k) returns from the idle state, a crash followed by a
\* reboot (loadCounters) yields counter k equal to the incremented value, in
\* every state reachable through starts, executed commands and reboots.
C4_StartSurvivesReboot ==
  [][(pc = "st_save" /\ pc' = "tick") =>
       LoadedCounter(eeprom')[active'] = counter'[active']]_vars

\* C5: every energization of a treatment relay by a debounced button press
\* increments that kind's counter by one and creates exactly one event.
C5_ButtonPressCounts ==
  [][\A k \in Kinds :
       (pc = "loop" /\ ~relays[RelayOf(k)] /\ relays'[RelayOf(k)]) =>
         (counter'[k] = counter[k] + 1 /\ lastEvent' # EmptyLine)]_vars

\* C6: when an append to the queue reports success the record is stored: the
\* size is non-zero and, the queue having been empty, read-front returns it.
C6_AppendSuccessMeansStored ==
  lastAppendOk => (QueueSize > 0 /\ ReadNextEvent = lastEvent)

\* C7: startTimer(k) called while a treatment is active changes nothing:
\* active, activeDurationMs, activeStartMs, the counters, the persisted
\* counters and the relays stay as they are and no event is created.
C7_StartWhileActiveIsNoOp ==
  [][(pc = "serial" /\ active # None /\ serialCmd' \in StartChars) =>
       /\ UNCHANGED <<treatVars, counter, resetCounter, eeprom, relays, ghostVars>>
       /\ pc' = "tick"]_vars

\* a start of another kind was rejected while a treatment runs
C7_Witness ==
  /\ pc = "tick"
  /\ active # None
  /\ serialCmd \in StartChars
  /\ KindOfChar(serialCmd) # active

\* C8: the incremented counter is persisted before the event is appended: once
\* the event of a start is appended, EEPROM holds the incremented counter.
C8_PersistedBeforeAppend ==
  (pc = "st_relay") => eeprom.counter[startKind] = counter[startKind]

\* C9: a single momentary stop input never moves the controller from Active
\* to Idle; only a stop input held for 2000 ms does.
C9_MomentaryStopIgnored ==
  [][(pc = "serial" /\ active # None /\ serialCmd' = "x") => active' # None]_vars

\* C10: an active treatment eventually ends by its timer; the tick that finds
\* elapsed >= activeDurationMs sets active to None, de-energizes all six
\* outputs and creates no event, and no other tick ends a treatment.
C10_TreatmentTimesOut ==
  /\ (active # None) ~> (active = None)
  /\ [][(pc = "tick" /\ active # None) =>
          IF ElapsedSince(now, activeStartMs) >= activeDurationMs
          THEN /\ active' = None
               /\ relays' = AllOff
               /\ UNCHANGED ghostVars
          ELSE UNCHANGED <<treatVars, relays>>]_vars

\* a treatment has just been ended by its timer, switching off a button relay
\* of another kind with it
C10_Witness ==
  /\ pc = "net"
  /\ active = None
  /\ buttonRelayActive
  /\ relays = AllOff
  /\ TotalCount(counter) > 0

\* C11: in loop()'s upload step a failed uploadEventJson leaves the record in
\* the queue and makes currentRetryDelay min(2 x its previous value,
\* RETRY_MAX_DELAY_MS); a successful one pops the record and puts
\* currentRetryDelay and retryAttempts back to RETRY_BASE_DELAY_MS and 0.
C11_UploadOutcomeSetsDelay ==
  [][(pc = "evq" /\ netOp'.op = "upload") =>
       IF netOp'.ok
       THEN /\ netOp'.popped
            /\ currentRetryDelay' = RETRY_BASE_DELAY_MS
            /\ retryAttempts' = 0
       ELSE /\ ~netOp'.popped
            /\ currentRetryDelay' =
                 (IF 2 * currentRetryDelay < RETRY_MAX_DELAY_MS
                  THEN 2 * currentRetryDelay ELSE RETRY_MAX_DELAY_MS)]_vars

\* C12: every wait value of the sync retry domains, as returned by
\* nextBackoffMs and as stored in currentRetryDelay and commandRetryDelay, is
\* at most RETRY_MAX_DELAY_MS, after any number of consecutive failures.
C12_WaitsAtMostMax ==
  /\ currentRetryDelay <= RETRY_MAX_DELAY_MS
  /\ commandRetryDelay <= RETRY_MAX_DELAY_MS

\* C13: over consecutive failed uploads the waits of the upload domain never
\* decrease: the wait a failed attempt leaves for the next retry is at least
\* the wait that attempt itself had to observe.
C13_UploadWaitsNonDecreasing ==
  [][(pc = "evq" /\ netOp'.op = "upload" /\ ~netOp'.ok) =>
       currentRetryDelay' >= currentRetryDelay]_vars

\* C14: the retry domains are independent: a failed command poll leaves
\* currentRetryDelay and retryAttempts unchanged, and a failed upload leaves
\* commandRetryDelay and commandRetryAttempts unchanged.
C14_RetryDomainsIndependent ==
  [][/\ (pc = "poll" /\ netOp'.op = "poll" /\ ~netOp'.ok) =>
          UNCHANGED <<currentRetryDelay, retryAttempts>>
     /\ (pc = "evq" /\ netOp'.op = "upload" /\ ~netOp'.ok) =>
          UNCHANGED cmdRetryVars]_vars

\* C15: whenever an authenticated call (event upload, command poll, result
\* report) receives HTTP 401, that call triggers performHandshake.
C15_UnauthorizedTriggersHandshake ==
  (netOp.op # "none" /\ netOp.first = "401") => netOp.handshakes >= 1

\* C16: one invocation of pollCommands or reportCommandResult makes at most
\* one performHandshake call and at most one retried request, the retry only
\* after a handshake that worked; a failed handshake or a second 401 ends the
\* invocation with failure.
C16_OneHandshakeOneRetry ==
  netOp.op \in {"poll", "execute"} =>
    /\ netOp.handshakes <= 1
    /\ netOp.requests <= 2
    /\ netOp.requests = 2 => (netOp.first = "401" /\ netOp.hsOk)
    /\ (netOp.first = "401" /\ (~netOp.hsOk \/ netOp.last = "401")) => ~netOp.ok

\* a poll or a report that got 401 twice: one handshake, two requests, failure
C16_Witness ==
  /\ netOp.op \in {"poll", "execute"}
  /\ netOp.first = "401"
  /\ netOp.hsOk
  /\ netOp.last = "401"
  /\ netOp.handshakes = 1
  /\ netOp.requests = 2
  /\ ~netOp.ok

\* C17: with an empty deviceToken an event upload, a command poll and a result
\* report send no request and return failure.
C17_NoRequestWithoutToken ==
  (netOp.op # "none" /\ ~netOp.hadToken) =>
    /\ netOp.requests = 0
    /\ netOp.handshakes = 0
    /\ ~netOp.ok

\* a result report attempted by a device that holds no token
C17_Witness ==
  /\ netOp.op = "execute"
  /\ netOp.type = "GET_STATUS"
  /\ ~netOp.hadToken
  /\ deviceToken = ""
  /\ netOp.requests = 0

\* C18: after a 2xx poll response appendCommandToQueue has been called for
\* exactly the commands whose command_id is neither empty nor "null", in
\* response order; an invalid entry does not keep later entries out.
C18_ValidCommandsAppendedInOrder ==
  (netOp.op = "poll" /\ netOp.ok) =>
    netOp.appended =
      SelectSeq(netOp.resp, LAMBDA e : e.id # "" /\ e.id # "null")

\* a response whose first entry is invalid and whose second is appended
C18_Witness ==
  /\ netOp.op = "poll"
  /\ netOp.ok
  /\ Len(netOp.resp) = 2
  /\ netOp.resp[1].id = "null"
  /\ netOp.resp[2].id = "c1"
  /\ netOp.appended = <<netOp.resp[2]>>

\* C19: every command with a valid id returned by a successful poll is
\* eventually executed while the device stays connected, in the order
\* received.  processCommandQueue executes only what it finds in the command
\* queue, so a command that a poll handed to the queue must be in it.
C19_PolledCommandsAwaitExecution ==
  (netOp.op = "poll" /\ netOp.appended # <<>>) => CommandQueueSize > 0

\* C20: a command that processCommandQueue read and handed to executeCommand
\* is popped after that one execution, whether the result report succeeded
\* or failed, so that it is never executed again.
C20_ExecutedCommandIsPopped ==
  netOp.op = "execute" => netOp.popped

\* a step in which processCommandQueue executed a stored command
ExecutedNow ==
  /\ pc = "net"
  /\ netOp'.op = "execute"
  /\ (pc' = "net" \/ netOp'.type = "REBOOT_DEVICE")

\* C21: for every command type, REBOOT_DEVICE included, one execution calls
\* reportCommandResult exactly once, after the handler and before the command
\* is removed or the device restarts.
C21_OneReportPerExecution ==
  netOp.op = "execute" => netOp.reports = 1

\* C22: executing RESET_COUNTERS zeroes the three counters, adds one to
\* resetCounter, writes these values to the EEPROM, and reports success with
\* a current_counters snapshot of zeros.
C22_ResetCountersEffect ==
  [][(ExecutedNow /\ netOp'.type = "RESET_COUNTERS") =>
       /\ counter' = [k \in Kinds |-> 0]
       /\ resetCounter' = resetCounter + 1
       /\ eeprom'.counter = [k \in Kinds |-> 0]
       /\ eeprom'.resetCounter = resetCounter + 1
       /\ netOp'.reports = 1
       /\ netOp'.success
       /\ netOp'.requests > 0 => netOp'.snapshot = <<[k \in Kinds |-> 0]>>]_vars

\* a RESET_COUNTERS command executed and reported with its snapshot
C22_Witness ==
  /\ netOp.op = "execute"
  /\ netOp.type = "RESET_COUNTERS"
  /\ netOp.requests > 0
  /\ netOp.snapshot = <<[k \in Kinds |-> 0]>>
  /\ counter = [k \in Kinds |-> 0]
  /\ resetCounter = 2
  /\ eeprom.resetCounter = 2
  /\ pc = "net"

\* C23: executing CLEAR_MEMORY leaves the persisted device id and token as they
\* were, so the identity loaded at the next boot is the one held before.
C23_ClearMemoryKeepsIdentity ==
  [][(ExecutedNow /\ netOp'.type = "CLEAR_MEMORY") =>
       /\ eeprom'.deviceId = eeprom.deviceId
       /\ eeprom'.deviceToken = eeprom.deviceToken]_vars

C25_RestartOnlyByRebootCommand ==
  [][(\E hs \in BOOLEAN : SetupFrom(eeprom, hs)) =>
       /\ pc = "net"
       /\ netOp'.op = "execute"
       /\ netOp'.typeStr = "REBOOT_DEVICE"]_vars

\* the device just restarted by a REBOOT_DEVICE command
C25_Witness ==
  /\ netOp.op = "execute"
  /\ netOp.typeStr = "REBOOT_DEVICE"
  /\ pc = "loop"
  /\ now = 0
  /\ resetCounter = 2

\* C26: starts in different boots never produce the same event identifier,
\* because resetCounter differs between any two boots: resetCounter only grows
\* within a boot, so every boot must begin above the value the boot before it
\* ended with, whatever starts, command executions and reboots came before.
C26_ResetCounterNewEachBoot ==
  [][(\E hs \in BOOLEAN : SetupFrom(eeprom, hs)) =>
       resetCounter' > resetCounter]_vars

\* C30: during a treatment start the incremented counter is persisted before
\* the kind's relay is energized: whenever a treatment relay is on, the
\* EEPROM holds the current counters.
C30_CounterPersistedBeforeRelay ==
  TreatmentRelaysOn # {} => eeprom.counter = counter

\* a step in which wifiTask finished a reconnection attempt
ReconnectAttemptEnded ==
  wifiReconnectionInProgress /\ ~wifiReconnectionInProgress'

\* C27: the reconnection delay starts at 30000 ms and doubles with each failed
\* reconnection attempt in a row, up to 300000 ms; a successful reconnection
\* resets it to 30000 ms and the attempt count to 0.
C27_ReconnectDelayDoubles ==
  [][ReconnectAttemptEnded =>
       IF reconnectAttempts' = reconnectAttempts + 1
       THEN reconnectDelay' =
              (IF 2 * reconnectDelay < RECONNECT_MAX_DELAY_MS
               THEN 2 * reconnectDelay ELSE RECONNECT_MAX_DELAY_MS)
       ELSE /\ reconnectDelay' = RECONNECT_BASE_DELAY_MS
            /\ reconnectAttempts' = 0]_vars

\* C28: a failed upload or command poll (with the handshake a 401 made it
\* run) changes nothing of the reconnection domain, and a failed reconnection
\* attempt changes nothing of the upload and poll retry state.
C28_ReconnectionDomainIndependent ==
  [][/\ ((pc = "poll" /\ netOp'.op = "poll" /\ ~netOp'.ok)
          \/ (pc = "evq" /\ netOp'.op = "upload" /\ ~netOp'.ok))
        => UNCHANGED wifiVars
     /\ (ReconnectAttemptEnded /\ reconnectAttempts' = reconnectAttempts + 1)
        => UNCHANGED <<retryVars, cmdRetryVars>>]_vars

\* C29: a debounced button state changes at a loop iteration only if the raw
\* level sampled differs from it and at least BUTTON_DEBOUNCE_MS have passed
\* since the interval's start, lastXChangeMs; every sample in which raw equals
\* the debounced state leaves the state alone and restarts the interval at
\* that sample.
C29_DebouncedChangeNeedsFullInterval ==
  [][(pc = "loop" /\ pc' = "serial") =>
       \A k \in Kinds :
         /\ stable'[k] # stable[k] =>
              /\ lastRaw'[k] # stable[k]
              /\ stable'[k] = lastRaw'[k]
              /\ ElapsedSince(now', lastChangeMs[k]) >= BUTTON_DEBOUNCE_MS
         /\ lastRaw'[k] = stable[k] =>
              /\ stable'[k] = stable[k]
              /\ lastChangeMs'[k] = now']_vars

\* a press that lasted the whole interval, accepted at its 50th millisecond
C29_Witness ==
  /\ pc = "serial"
  /\ now = BUTTON_DEBOUNCE_MS
  /\ lastRaw[Basic]
  /\ stable[Basic]
  /\ lastChangeMs[Basic] = BUTTON_DEBOUNCE_MS
  /\ buttonRelayActive

\* the clock reading at which deactivateButtonRelay computed inputsInhibitUntil
InhibitSetAt == (inputsInhibitUntil - INHIBIT_MS + ClockWrap) % ClockWrap

\* C31: a button relay is started only by a button whose debounced state was
\* released at the previous sample and is pressed at this one.  A button
\* that stays pressed, from before the last activation ended, from a press
\* during that activation or during the inhibit window after it, starts
\* nothing until it has been released and pressed again.
C31_HeldButtonStartsNothing ==
  [][(~buttonRelayActive /\ buttonRelayActive') =>
       /\ ~stable[activeButtonRelay' - 1]
       /\ stable'[activeButtonRelay' - 1]]_vars

\* STANDARD held with the inhibit window over and no button relay running:
\* the relay that ended was BASIC's (STANDARD's would outlast HoldHorizonMs),
\* so the press began while it ran or inside the inhibit window
C31_Witness ==
  /\ pc = "serial"
  /\ stable[Standard]
  /\ btnLast[Standard]
  /\ lastRaw[Standard]
  /\ ~buttonRelayActive
  /\ inputsInhibitUntil > INHIBIT_MS
  /\ now >= inputsInhibitUntil

HandshakeAttemptedNow ==
  /\ pc = "net"
  /\ pc' = "poll"
  /\ (deviceId = "" \/ deviceToken = "")

\* C33: after a failed handshake attempt the next one waits for a backoff
\* delay: loop() does not attempt a handshake in the iteration that follows
\* one whose attempt failed.
C33_HandshakeBacksOff ==
  [][HandshakeAttemptedNow => ~handshakeFailed]_vars

\* C34: whenever a treatment is active, the treatment relay and the LED mirror
\* of its kind are energized, under any interleaving of serial starts and
\* stops, button activations and timer expiries.
C34_ActiveTreatmentRelayOn ==
  active # None => (relays[RelayOf(active)] /\ relays[LedOf(active)])

\* C35: a relay activation started by a button press keeps its relay and LED
\* mirror energized for as long as buttonRelayActive is true; in particular
\* the stop or the timeout of a serial-started treatment does not switch it
\* off.
C35_ButtonRelayKeptOn ==
  buttonRelayActive =>
    /\ relays[RelayOf(activeButtonRelay - 1)]
    /\ relays[LedOf(activeButtonRelay - 1)]

\* C36: the inhibit condition nowMs < inputsInhibitUntil holds only during the
\* INHIBIT_MS that follow a button-relay deactivation: once they have elapsed
\* it is false and stays false until the next deactivation, also across a
\* wrap of the millisecond clock.
C36_InhibitAtMostWindow ==
  now < inputsInhibitUntil => ElapsedSince(now, InhibitSetAt) < INHIBIT_MS

\* a step of an operation that sets the treatment counters back to zero
CountersZeroedNow ==
  \/ pc = "serial" /\ serialCmd' = "r"
  \/ ExecutedNow /\ netOp'.type = "RESET_COUNTERS"

\* C38: every operation that sets the treatment counters back to zero, the
\* RESET_COUNTERS command and the serial 'r' reset, also adds one to
\* resetCounter and writes it to the EEPROM, so that within one boot a counter
\* value is never used twice under the same resetCounter.
C38_ZeroingBumpsResetCounter ==
  [][CountersZeroedNow =>
       /\ counter' = [k \in Kinds |-> 0]
       /\ resetCounter' = resetCounter + 1
       /\ eeprom'.resetCounter = resetCounter']_vars

\* C37: over a run of failed reconnection attempts with no success in
\* between, reconnectDelay never decreases, however long the run, the 8-bit
\* reconnectAttempts counter considered.
C37_ReconnectDelayNonDecreasing ==
  [][(ReconnectAttemptEnded /\ ~wifiConnected') =>
       reconnectDelay' >= reconnectDelay]_vars

\* C39: wifiTask tears the link down and reconnects only when the link is
\* down, and never while the main task is inside the branch of loop() that
\* makes the HTTP requests of an iteration.
C39_ReconnectOnlyWhenLinkDown ==
  [][ReconnectAttemptEnded =>
       (~wifiConnected /\ pc \notin {"poll", "evq"})]_vars

\* C40: while the link stays down reconnection attempts recur for ever: after
\* every failed attempt loop() sets wifiReconnectionInProgress again, with a
\* reconnectDelay of at most RECONNECT_MAX_DELAY_MS to wait for, and wifiTask
\* makes another attempt and clears it.
C40_ReconnectionRecurs ==
  /\ [](reconnectDelay <= RECONNECT_MAX_DELAY_MS)
  /\ []<>wifiReconnectionInProgress
  /\ []<>(~wifiReconnectionInProgress)

\* with the delay at its ceiling after many failures, one more attempt asked for
C40_Witness ==
  /\ ~wifiConnected
  /\ wifiReconnectionInProgress
  /\ reconnectAttempts > 9
  /\ reconnectDelay = RECONNECT_MAX_DELAY_MS

====
